---- MODULE Spec2Model ----
(***************************************************************************)
(* Model of IASimples (iabot.py): the response-selection pipeline, the     *)
(* curated knowledge store, the learned-response store, the conversation   *)
(* log directory, the feedback table and the statistics record.            *)
(*                                                                         *)
(* Texts are sequences of one-character strings, so that lower(), strip(), *)
(* unidecode(), re.findall(r'\w+') and the `in` substring test are         *)
(* computed the way Python computes them.  Replies are opaque strings:     *)
(* the code only tests them for truthiness and equality.                   *)
(***************************************************************************)
EXTENDS Integers, Sequences, FiniteSets, TLC

(***************************************************************************)
(* Bounds of the model.                                                    *)
(***************************************************************************)
MaxPassos == 3          \* calls into the core explored in one run
MaxEscolha == 1         \* outcomes of random.choice explored
MaxTick == 1            \* seconds the wall clock advances
MaxPadroes == 2         \* learned patterns of a store loaded at start-up

(***************************************************************************)
(* Characters.  A_ACUTE stands for the letter a with an acute accent, a    *)
(* word character that unidecode maps to "a" and lower() leaves alone.     *)
(***************************************************************************)
A_ACUTE == "a_acute"
SPACE == " "
NONE == "<None>"

\* str.lower() on one character
LowerChar(c) == IF c = "A" THEN "a" ELSE IF c = "B" THEN "b" ELSE c

\* str.lower()
Lower(s) == [i \in 1..Len(s) |-> LowerChar(s[i])]

\* unidecode() on one character: diacritics are stripped
UnidecodeChar(c) == IF c = A_ACUTE THEN "a" ELSE c

\* unidecode()
Unidecode(s) == [i \in 1..Len(s) |-> UnidecodeChar(s[i])]

\* str.strip(): leading and trailing whitespace removed
RECURSIVE LStrip(_)
LStrip(s) == IF s # <<>> /\ Head(s) = SPACE THEN LStrip(Tail(s)) ELSE s

RECURSIVE RStrip(_)
RStrip(s) ==
    IF s # <<>> /\ s[Len(s)] = SPACE THEN RStrip(SubSeq(s, 1, Len(s) - 1)) ELSE s

Strip(s) == RStrip(LStrip(s))

\* \w of the re module: everything of the alphabet but the space
IsWordChar(c) == c # SPACE

\* set(re.findall(r'\w+', s)): the maximal runs of word characters
Palavras(s) ==
    { SubSeq(s, i, j) : <<i, j>> \in
        { p \in (1..Len(s)) \X (1..Len(s)) :
            /\ p[1] <= p[2]
            /\ \A k \in p[1]..p[2] : IsWordChar(s[k])
            /\ (p[1] = 1 \/ ~IsWordChar(s[p[1] - 1]))
            /\ (p[2] = Len(s) \/ ~IsWordChar(s[p[2] + 1])) } }

\* Python's `p in t` on strings
Contido(p, t) ==
    \E i \in 0..(Len(t) - Len(p)) : SubSeq(t, i + 1, i + Len(p)) = p

\* Python truthiness of a reply: None and "" are falsy
Truthy(r) == r # NONE /\ r # ""

(***************************************************************************)
(* Inputs explored.                                                        *)
(***************************************************************************)
\* message and teach texts: accented a, " A b", "b"
Textos == { <<A_ACUTE>>, <<SPACE, "A", SPACE, "b">>, <<"b">> }

\* replies given to adicionar_conhecimento ("" is what "/ensinar p |" teaches)
RespostasEnsinadas == { "r1", "r2", "" }

\* Telegram user ids: one user, whose id is a digit no timestamp contains
UserIds == { 3 }

\* self.respostas_padrao
RespostasPadrao ==
    << "Ainda estou aprendendo sobre isso.",
       "Nao tenho conhecimento suficiente para responder.",
       "Poderia me ensinar mais sobre esse assunto?",
       "Nao entendi bem. Pode explicar de outra forma?",
       "Estou processando esse tema ainda, me desculpe." >>

\* the indices random.choice is explored to draw
Escolhas == { k \in 1..Len(RespostasPadrao) : k <= MaxEscolha }

\* What requests.get can produce in buscar_na_wikipedia: an exception
\* (timeout, connection error), a non-200 status, a 200 without "extract",
\* a 200 with an empty "extract", a 200 with a summary.
RespostasHttp ==
    { [erro |-> TRUE, status |-> 0, extract |-> NONE],
      [erro |-> FALSE, status |-> 404, extract |-> NONE],
      [erro |-> FALSE, status |-> 200, extract |-> NONE],
      [erro |-> FALSE, status |-> 200, extract |-> ""],
      [erro |-> FALSE, status |-> 200, extract |-> "Resumo da Wikipedia"] }

\* outcomes of _salvar_json on a conversation file: written; open() raised
\* (nothing on disk changes); the write raised after open() truncated the file
SaidasSalvar == { "ok", "falha_abrir", "falha_escrever" }

(***************************************************************************)
(* Formatting.                                                             *)
(***************************************************************************)
Digito(n) == << "0", "1", "2", "3", "4", "5", "6", "7", "8", "9" >>[n + 1]

\* str() of a non-negative integer
RECURSIVE IntToStr(_)
IntToStr(n) ==
    IF n < 10 THEN << Digito(n) >>
    ELSE IntToStr(n \div 10) \o << Digito(n % 10) >>

\* two-digit field of strftime
DoisDigitos(n) == << Digito(n \div 10), Digito(n % 10) >>

\* the wall clock `t` seconds after 2026-11-01 12:00:07
Segundos(t) == 7 + t

\* datetime.now().strftime("%Y%m%d%H%M%S")
StrfCompacto(t) ==
    << "2", "0", "2", "6", "1", "1", "0", "1", "1", "2", "0", "0" >>
        \o DoisDigitos(Segundos(t))

\* datetime.now().strftime("%Y-%m-%d %H:%M:%S")
StrfLegivel(t) ==
    << "2", "0", "2", "6", "-", "1", "1", "-", "0", "1", SPACE,
       "1", "2", ":", "0", "0", ":" >> \o DoisDigitos(Segundos(t))

\* f"conversa_{user_id}_{timestamp}.json", the name os.listdir returns
NomeArquivo(user_id, timestamp) ==
    << "c", "o", "n", "v", "e", "r", "s", "a", "_" >> \o IntToStr(user_id)
        \o << "_" >> \o timestamp \o << ".", "j", "s", "o", "n" >>

POSITIVO == << "p", "o", "s", "i", "t", "i", "v", "o" >>
NEGATIVO == << "n", "e", "g", "a", "t", "i", "v", "o" >>
FEEDBACK == << "f", "e", "e", "d", "b", "a", "c", "k" >>

\* message identifiers given to _aprender_com_feedback: "3" (inside every
\* file of user 3), "07" and "08" (inside the files of one second), "5"
\* (inside no file)
MensagemIds == { << "3" >>, << "0", "7" >>, << "0", "8" >>, << "5" >> }

\* str.split("_")
RECURSIVE Split(_, _)
Split(s, cur) ==
    IF s = <<>> THEN << cur >>
    ELSE IF Head(s) = "_" THEN << cur >> \o Split(Tail(s), <<>>)
    ELSE Split(Tail(s), Append(cur, Head(s)))

\* callback data of the feedback buttons, f"feedback_{tipo}_{message_id}",
\* and one that is not of that shape
CallbackData ==
    { FEEDBACK \o << "_" >> \o POSITIVO \o << "_", "3" >>,
      FEEDBACK \o << "_" >> \o NEGATIVO \o << "_", "5" >>,
      << "x", "_", "y" >> }

(***************************************************************************)
(* State.                                                                  *)
(*   conhecimento  self.conhecimento, a dict in insertion order: a         *)
(*                 sequence of [padrao, resposta, data_adicao]             *)
(*   respostas     self.respostas, a dict in insertion order: a sequence   *)
(*                 of [padrao, candidatas], candidatas a sequence of       *)
(*                 [texto, pontuacao]; pontuacao counts halves (2 is 1.0,  *)
(*                 -1 is -0.5)                                             *)
(*   estatisticas  self.estatisticas                                       *)
(*   tabelaFeedback  the rows of the SQL table feedback, in id order       *)
(*   conversas     the files of CONVERSAS_DIR: a set of                    *)
(*                 [nome, valido, user_id, timestamp, pergunta, resposta]  *)
(*                 with one record per name                                *)
(*   agora         the wall clock, seconds since the first reading         *)
(*   ultima        the last call and what it returned (history variable)   *)
(*   passos        the number of calls made so far (history variable)      *)
(***************************************************************************)
VARIABLES conhecimento, respostas, estatisticas, tabelaFeedback, conversas,
          agora, ultima, passos

vars == << conhecimento, respostas, estatisticas, tabelaFeedback, conversas,
           agora, ultima, passos >>

\* one more call, while the run has calls left
Passo == passos < MaxPassos /\ passos' = passos + 1

Nada ==
    [ op |-> "init", texto |-> <<>>, user_id |-> 0, retorno |-> NONE,
      wiki |-> NONE, saida |-> "", mensagem_id |-> <<>>, tipo |-> <<>>,
      arquivo |-> <<>>, resposta |-> "" ]

(***************************************************************************)
(* Knowledge matcher: the loop of processar_mensagem over                  *)
(* self.conhecimento.items(), from entry i on, with the running            *)
(* max_correspondencia and resposta.                                       *)
(***************************************************************************)
\* palavras_padrao: the pattern is lower-cased only
PalavrasPadrao(padrao) == Palavras(Lower(padrao))

\* texto_normalizado
Normalizar(texto) == Unidecode(Strip(Lower(texto)))

Correspondencia(padrao, texto_normalizado) ==
    Cardinality(PalavrasPadrao(padrao) \cap Palavras(texto_normalizado))

RECURSIVE BuscarConhecimento(_, _, _, _, _)
BuscarConhecimento(conhec, texto_normalizado, i, max_correspondencia, resposta) ==
    IF i > Len(conhec) THEN resposta
    ELSE LET correspondencia == Correspondencia(conhec[i].padrao, texto_normalizado)
         IN  IF correspondencia > 0 /\ correspondencia > max_correspondencia
             THEN BuscarConhecimento(conhec, texto_normalizado, i + 1,
                                     correspondencia, conhec[i].resposta)
             ELSE BuscarConhecimento(conhec, texto_normalizado, i + 1,
                                     max_correspondencia, resposta)

(***************************************************************************)
(* Learned-response matcher.                                               *)
(***************************************************************************)
\* max(respostas_possiveis, key=pontuacao): the first of the maximal items,
\* folded from item i on with the best so far
RECURSIVE MaxPontuacao(_, _, _)
MaxPontuacao(candidatas, i, melhor) ==
    IF i > Len(candidatas) THEN melhor
    ELSE IF candidatas[i].pontuacao > melhor.pontuacao
         THEN MaxPontuacao(candidatas, i + 1, candidatas[i])
         ELSE MaxPontuacao(candidatas, i + 1, melhor)

\* A faulty variant of BuscarAprendidas: the scan goes on after a match and the
\* last matching pattern decides.
RECURSIVE BuscarAprendidasUltima(_, _, _, _)
BuscarAprendidasUltima(resps, texto_normalizado, i, resposta) ==
    IF i > Len(resps) THEN resposta
    ELSE IF /\ \/ Contido(resps[i].padrao, texto_normalizado)
               \/ Contido(texto_normalizado, resps[i].padrao)
            /\ resps[i].candidatas # <<>>
         THEN BuscarAprendidasUltima(resps, texto_normalizado, i + 1,
                  MaxPontuacao(resps[i].candidatas, 2, resps[i].candidatas[1]).texto)
         ELSE BuscarAprendidasUltima(resps, texto_normalizado, i + 1, resposta)

\* the loop over self.respostas.items() from pattern i on; `resposta` is
\* what the variable holds when no pattern breaks the loop
RECURSIVE BuscarAprendidas(_, _, _, _)
BuscarAprendidas(resps, texto_normalizado, i, resposta) ==
    IF i > Len(resps) THEN resposta
    ELSE IF /\ \/ Contido(resps[i].padrao, texto_normalizado)
               \/ Contido(texto_normalizado, resps[i].padrao)
            /\ resps[i].candidatas # <<>>
         THEN MaxPontuacao(resps[i].candidatas, 2, resps[i].candidatas[1]).texto
         ELSE BuscarAprendidas(resps, texto_normalizado, i + 1, resposta)

\* buscar_na_wikipedia on what requests.get produced
buscar_na_wikipedia(http) ==
    IF http.erro THEN NONE
    ELSE IF http.status = 200 /\ http.extract # NONE /\ Truthy(http.extract)
         THEN http.extract
         ELSE NONE

\* processar_mensagem up to the Wikipedia stage: the reply the two local
\* matchers leave in `resposta`
RespostaLocal(conhec, resps, texto) ==
    LET texto_normalizado == Normalizar(texto)
        r1 == BuscarConhecimento(conhec, texto_normalizado, 1, 0, NONE)
    IN  IF ~Truthy(r1) THEN BuscarAprendidas(resps, texto_normalizado, 1, r1)
        ELSE r1

(***************************************************************************)
(* Store updates.                                                          *)
(***************************************************************************)
\* index of key `padrao` in an insertion-ordered dict, 0 when absent
Indice(d, padrao) ==
    IF \E i \in 1..Len(d) : d[i].padrao = padrao
    THEN CHOOSE i \in 1..Len(d) : d[i].padrao = padrao
    ELSE 0

\* A faulty variant of AtribuirConhecimento: the entry is appended even when the
\* pattern is already a key.
AtribuirConhecimentoAnexa(conhec, pergunta, resposta, data) ==
    Append(conhec, [padrao |-> pergunta, resposta |-> resposta,
                    data_adicao |-> data])

\* self.conhecimento[pergunta] = {"resposta": ..., "data_adicao": ...}
AtribuirConhecimento(conhec, pergunta, resposta, data) ==
    LET entrada == [padrao |-> pergunta, resposta |-> resposta,
                    data_adicao |-> data]
        i == Indice(conhec, pergunta)
    IN  IF i = 0 THEN Append(conhec, entrada)
        ELSE [conhec EXCEPT ![i] = entrada]

\* the score change of one feedback, in halves: += 1 or -= 0.5
Ajuste(tipo_feedback) == IF tipo_feedback = POSITIVO THEN 2 ELSE -1

\* A faulty variant of AtualizarCandidatas: a candidate is appended without looking
\* for an existing one.
AtualizarCandidatasAnexa(candidatas, resposta, tipo_feedback) ==
    Append(candidatas, [texto |-> resposta, pontuacao |-> Ajuste(tipo_feedback)])

\* A faulty variant of AtualizarCandidatas: scores are floored at zero.
AtualizarCandidatasPiso(candidatas, resposta, tipo_feedback) ==
    LET Piso(x) == IF x < 0 THEN 0 ELSE x
    IN  IF \E i \in 1..Len(candidatas) : candidatas[i].texto = resposta
        THEN LET i == CHOOSE k \in 1..Len(candidatas) :
                        /\ candidatas[k].texto = resposta
                        /\ \A j \in 1..(k - 1) : candidatas[j].texto # resposta
             IN  [candidatas EXCEPT
                    ![i].pontuacao = Piso(@ + Ajuste(tipo_feedback))]
        ELSE Append(candidatas, [texto |-> resposta,
                                 pontuacao |-> Piso(Ajuste(tipo_feedback))])

\* the loop of _aprender_com_feedback over self.respostas[pergunta] and the
\* append that follows it: the first item whose texto is the answer gets the
\* score change; without one, a new item is appended
AtualizarCandidatas(candidatas, resposta, tipo_feedback) ==
    IF \E i \in 1..Len(candidatas) : candidatas[i].texto = resposta
    THEN LET i == CHOOSE k \in 1..Len(candidatas) :
                    /\ candidatas[k].texto = resposta
                    /\ \A j \in 1..(k - 1) : candidatas[j].texto # resposta
         IN  [candidatas EXCEPT ![i].pontuacao = @ + Ajuste(tipo_feedback)]
    ELSE Append(candidatas, [texto |-> resposta,
                             pontuacao |-> Ajuste(tipo_feedback)])

\* _aprender_com_feedback once the conversation is loaded
AprenderRespostas(resps, pergunta, resposta, tipo_feedback) ==
    LET comChave == IF Indice(resps, pergunta) = 0
                    THEN Append(resps, [padrao |-> pergunta, candidatas |-> <<>>])
                    ELSE resps
        i == Indice(comChave, pergunta)
    IN  [comChave EXCEPT ![i].candidatas =
            AtualizarCandidatas(@, resposta, tipo_feedback)]

\* A faulty variant of EscolherResposta: the default stage is missing.
EscolherRespostaSemPadrao(local, wiki, escolha) ==
    IF Truthy(local) THEN local ELSE wiki

\* the last two stages of processar_mensagem: the Wikipedia summary when the
\* local matchers left nothing, then random.choice(self.respostas_padrao)
EscolherResposta(local, wiki, escolha) ==
    IF Truthy(local) THEN local
    ELSE IF Truthy(wiki) THEN wiki
    ELSE RespostasPadrao[escolha]

\* the file _registrar_conversa names
ArquivoConversa(user_id, t) == NomeArquivo(user_id, StrfCompacto(t))

\* _registrar_conversa with the outcome of its _salvar_json: open(arquivo,
\* 'w') replaces a file of the same name
_registrar_conversa(conv, pergunta, resposta, user_id, t, saida) ==
    LET nome == ArquivoConversa(user_id, t)
        outros == { f \in conv : f.nome # nome }
    IN  CASE saida = "ok" ->
                outros \cup { [nome |-> nome, valido |-> TRUE,
                               user_id |-> user_id,
                               timestamp |-> StrfCompacto(t),
                               pergunta |-> pergunta, resposta |-> resposta] }
          [] saida = "falha_escrever" ->
                outros \cup { [nome |-> nome, valido |-> FALSE, user_id |-> 0,
                               timestamp |-> <<>>, pergunta |-> <<>>,
                               resposta |-> ""] }
          [] OTHER -> conv

(***************************************************************************)
(* Initial state: a fresh installation, no file in dados_ia and an empty   *)
(* database.                                                               *)
(***************************************************************************)
Init ==
    /\ conhecimento = <<>>
    /\ respostas = <<>>
    /\ estatisticas = [interacoes |-> 0, feedback_positivo |-> 0,
                       feedback_negativo |-> 0, ultima_atualizacao |-> <<>>]
    /\ tabelaFeedback = <<>>
    /\ conversas = {}
    /\ agora = 0
    /\ ultima = Nada
    /\ passos = 0

(***************************************************************************)
(* IASimples.processar_mensagem(texto, user_id).  The saves of             *)
(* estatisticas.json, conhecimento.json and respostas_aprendidas.json      *)
(* write files the running process never reads again; only the             *)
(* conversation files are read back, so only they are part of the state.   *)
(***************************************************************************)
Concluir(texto, user_id, resposta, wiki) ==
    \E saida \in SaidasSalvar :
        /\ estatisticas' =
              [estatisticas EXCEPT !.interacoes = @ + 1,
                                   !.ultima_atualizacao = StrfLegivel(agora)]
        /\ conversas' = _registrar_conversa(conversas, texto, resposta,
                                          user_id, agora, saida)
        /\ ultima' = [Nada EXCEPT !.op = "processar_mensagem",
                                  !.texto = texto, !.user_id = user_id,
                                  !.retorno = resposta, !.wiki = wiki,
                                  !.saida = saida]
        /\ UNCHANGED << conhecimento, respostas, tabelaFeedback, agora >>

processar_mensagem ==
    /\ Passo
    /\ \E texto \in Textos, user_id \in UserIds :
        LET local == RespostaLocal(conhecimento, respostas, texto)
        IN  IF Truthy(local)
            THEN Concluir(texto, user_id, EscolherResposta(local, NONE, 1),
                          "nao consultada")
            ELSE \E http \in RespostasHttp :
                    LET wiki == buscar_na_wikipedia(http)
                    IN  IF Truthy(wiki)
                        THEN Concluir(texto, user_id,
                                      EscolherResposta(local, wiki, 1), wiki)
                        ELSE \E escolha \in Escolhas :
                                Concluir(texto, user_id,
                                         EscolherResposta(local, wiki, escolha),
                                         wiki)

(***************************************************************************)
(* IASimples.adicionar_conhecimento(pergunta, resposta)                    *)
(***************************************************************************)
adicionar_conhecimento ==
    \E pergunta \in Textos, resposta \in RespostasEnsinadas :
        /\ Passo
        /\ conhecimento' = AtribuirConhecimento(conhecimento, pergunta, resposta,
                                                StrfLegivel(agora))
        /\ ultima' = [Nada EXCEPT !.op = "adicionar_conhecimento",
                                  !.texto = pergunta, !.resposta = resposta]
        /\ UNCHANGED << respostas, estatisticas, tabelaFeedback, conversas, agora >>

(***************************************************************************)
(* IASimples.registrar_feedback: one INSERT INTO feedback.                 *)
(***************************************************************************)
registrar_feedback(tabela, mensagem_id, user_id, tipo_feedback) ==
    Append(tabela, [mensagem_id |-> mensagem_id, user_id |-> user_id,
                    tipo_feedback |-> tipo_feedback])

(***************************************************************************)
(* processar_feedback(update, context): the callback-query handler.        *)
(***************************************************************************)
processar_feedback ==
    \E data \in CallbackData, user_id \in UserIds :
        LET partes == Split(data, <<>>)
        IN  /\ Passo
            /\ IF Len(partes) >= 3
               THEN tabelaFeedback' =
                        registrar_feedback(tabelaFeedback, partes[3], user_id,
                                           partes[2])
               ELSE UNCHANGED tabelaFeedback
            /\ ultima' = [Nada EXCEPT !.op = "processar_feedback",
                                      !.texto = data, !.user_id = user_id,
                                      !.mensagem_id =
                                          IF Len(partes) >= 3 THEN partes[3] ELSE <<>>,
                                      !.tipo =
                                          IF Len(partes) >= 3 THEN partes[2] ELSE <<>>]
            /\ UNCHANGED << conhecimento, respostas, estatisticas, conversas, agora >>

(***************************************************************************)
(* IASimples._aprender_com_feedback(mensagem_id, tipo_feedback).  No       *)
(* handler calls it; it is the library operation learnFromFeedback.        *)
(* os.listdir returns the names in arbitrary order, so the file the loop   *)
(* stops at is any of those whose name contains mensagem_id.               *)
(***************************************************************************)
ArquivosCom(mensagem_id) == { f \in conversas : Contido(mensagem_id, f.nome) }

_aprender_com_feedback ==
    /\ Passo
    /\ \E mensagem_id \in MensagemIds, tipo_feedback \in { POSITIVO, NEGATIVO } :
        IF ArquivosCom(mensagem_id) = {}
        THEN /\ ultima' = [Nada EXCEPT !.op = "_aprender_com_feedback",
                                       !.mensagem_id = mensagem_id,
                                       !.tipo = tipo_feedback,
                                       !.saida = "ausente"]
             /\ UNCHANGED << conhecimento, respostas, estatisticas,
                             tabelaFeedback, conversas, agora >>
        ELSE \E f \in ArquivosCom(mensagem_id) :
                /\ respostas' =
                      IF f.valido
                      THEN AprenderRespostas(respostas, Strip(Lower(f.pergunta)),
                                             f.resposta, tipo_feedback)
                      ELSE respostas
                /\ ultima' = [Nada EXCEPT !.op = "_aprender_com_feedback",
                                          !.mensagem_id = mensagem_id,
                                          !.tipo = tipo_feedback,
                                          !.arquivo = f.nome,
                                          !.saida = IF f.valido THEN "carregada"
                                                    ELSE "ilegivel",
                                          !.texto = f.pergunta,
                                          !.resposta = f.resposta]
                /\ UNCHANGED << conhecimento, estatisticas, tabelaFeedback,
                                conversas, agora >>

(***************************************************************************)
(* The wall clock datetime.now() reads advances between calls.             *)
(***************************************************************************)
Tick ==
    /\ agora < MaxTick
    /\ agora' = agora + 1
    /\ UNCHANGED << conhecimento, respostas, estatisticas, tabelaFeedback,
                    conversas, ultima, passos >>

Next ==
    \/ processar_mensagem
    \/ adicionar_conhecimento
    \/ processar_feedback
    \/ _aprender_com_feedback
    \/ Tick

Spec == Init /\ [][Next]_vars

(***************************************************************************)
(* Vocabulary of the properties.                                           *)
(***************************************************************************)
\* the step is a call (not a clock tick) of the operation named
Foi(op) == passos' = passos + 1 /\ ultima'.op = op
FoiMensagem == Foi("processar_mensagem")
FoiEnsino == Foi("adicionar_conhecimento")
FoiFeedback == Foi("processar_feedback") /\ ultima'.tipo # <<>>
FoiAprender == Foi("_aprender_com_feedback")

\* the keys of an insertion-ordered dict
Chaves(d) == { d[i].padrao : i \in 1..Len(d) }
ChavesUnicas(d) == \A i, j \in 1..Len(d) : d[i].padrao = d[j].padrao => i = j

\* the positions <<pattern index, candidate index>> of a learned store
Posicoes(resps) ==
    UNION { { <<i, j>> : j \in 1..Len(resps[i].candidatas) } : i \in 1..Len(resps) }

\* the positions holding candidate `texto` under learned pattern `padrao`
PosicoesDe(resps, padrao, texto) ==
    { q \in Posicoes(resps) :
        /\ resps[q[1]].padrao = padrao
        /\ resps[q[1]].candidatas[q[2]].texto = texto }

\* the scores stored for candidate `texto` under learned pattern `padrao`
\* (empty when there is no such candidate)
Pontos(resps, padrao, texto) ==
    { resps[q[1]].candidatas[q[2]].pontuacao : q \in PosicoesDe(resps, padrao, texto) }

\* how many candidates the store holds for (padrao, texto)
Quantas(resps, padrao, texto) == Cardinality(PosicoesDe(resps, padrao, texto))

\* every (padrao, texto) a learned store mentions
Pares(resps) ==
    { << resps[q[1]].padrao, resps[q[1]].candidatas[q[2]].texto >> :
        q \in Posicoes(resps) }

TotalCandidatas(resps) == Cardinality(Posicoes(resps))

\* no text twice under one pattern, no pattern twice
SemDuplicatas(resps) ==
    /\ ChavesUnicas(resps)
    /\ \A i \in 1..Len(resps) : \A j, k \in 1..Len(resps[i].candidatas) :
          resps[i].candidatas[j].texto = resps[i].candidatas[k].texto => j = k

NoPool(r) == \E k \in 1..Len(RespostasPadrao) : RespostasPadrao[k] = r

\* C3: adicionar_conhecimento(p, r) is an upsert keyed by the exact pattern
\* text: afterwards the store maps p to an entry whose reply is r, its keys
\* are unique, every entry for another pattern is unchanged and keeps its
\* place, the entry count grows by one iff p was absent, and the
\* learned-response store and the statistics are unchanged.
C3_EnsinoUpsert ==
    [][ FoiEnsino =>
          LET p == ultima'.texto
              r == ultima'.resposta
          IN  /\ ChavesUnicas(conhecimento')
              /\ \E i \in 1..Len(conhecimento') :
                    /\ conhecimento'[i].padrao = p
                    /\ conhecimento'[i].resposta = r
              /\ \A i \in 1..Len(conhecimento) :
                    conhecimento[i].padrao # p =>
                        conhecimento'[i] = conhecimento[i]
              /\ \A i \in 1..Len(conhecimento') :
                    conhecimento'[i].padrao # p =>
                        i <= Len(conhecimento) /\ conhecimento[i] = conhecimento'[i]
              /\ Len(conhecimento') =
                    Len(conhecimento) + (IF p \in Chaves(conhecimento) THEN 0 ELSE 1)
              /\ respostas' = respostas
              /\ estatisticas' = estatisticas ]_vars

\* C3 witness: the last call re-taught the pattern of the first entry while a
\* second entry, taught after it, is in the store.
C3_Witness ==
    /\ ultima.op = "adicionar_conhecimento"
    /\ Len(conhecimento) = 2
    /\ conhecimento[1].padrao = ultima.texto
    /\ conhecimento[1].resposta = ultima.resposta

\* C4: the learned-response store never holds a reply text twice under one
\* pattern (nor a pattern twice), and positive feedback for a (pattern,
\* reply) that already has a candidate strictly increases that candidate's
\* score and leaves the number of candidates unchanged.
C4_SemDuplicatas ==
    /\ []SemDuplicatas(respostas)
    /\ [][ ( /\ FoiAprender
             /\ ultima'.saida = "carregada"
             /\ ultima'.tipo = POSITIVO
             /\ Pontos(respostas, Strip(Lower(ultima'.texto)), ultima'.resposta) # {} )
           => LET padrao == Strip(Lower(ultima'.texto))
                  antes == Pontos(respostas, padrao, ultima'.resposta)
                  depois == Pontos(respostas', padrao, ultima'.resposta)
              IN  /\ \A x \in antes : \A y \in depois : y > x
                  /\ Cardinality(depois) = 1
                  /\ Quantas(respostas', padrao, ultima'.resposta) = 1
                  /\ TotalCandidatas(respostas') = TotalCandidatas(respostas)
                  /\ Len(respostas') = Len(respostas) ]_vars

\* C4 witness: positive feedback was just learned for a reply that already
\* had a candidate, whose score is now 2.0.
C4_Witness ==
    /\ ultima.op = "_aprender_com_feedback"
    /\ ultima.saida = "carregada"
    /\ ultima.tipo = POSITIVO
    /\ Pontos(respostas, Strip(Lower(ultima.texto)), ultima.resposta) = { 4 }

SemRelacao(conhec, resps, texto) ==
    /\ \A i \in 1..Len(conhec) :
          Correspondencia(conhec[i].padrao, Normalizar(texto)) = 0
    /\ \A i \in 1..Len(resps) :
          /\ ~Contido(resps[i].padrao, Normalizar(texto))
          /\ ~Contido(Normalizar(texto), resps[i].padrao)

\* C7: processar_mensagem always returns a non-empty reply, and when the
\* text has no word in common with any curated pattern, no substring
\* relation with any learned pattern and the Wikipedia lookup yields
\* nothing, the reply is one of respostas_padrao.
C7_RespostaPadrao ==
    [][ FoiMensagem =>
          /\ Truthy(ultima'.retorno)
          /\ ( /\ SemRelacao(conhecimento, respostas, ultima'.texto)
               /\ ultima'.wiki = NONE )
             => NoPool(ultima'.retorno) ]_vars

\* C7 witness: a message unrelated to a non-empty curated store was answered
\* from the default pool after the lookup failed.
C7_Witness ==
    /\ ultima.op = "processar_mensagem"
    /\ conhecimento # <<>>
    /\ SemRelacao(conhecimento, respostas, ultima.texto)
    /\ ultima.wiki = NONE
    /\ NoPool(ultima.retorno)

\* the tokens of a text normalized the way spec and glossary state it for
\* both sides: case-folded, diacritics stripped, split on word boundaries
PalavrasUniformes(texto) == Palavras(Normalizar(texto))

\* C1: every feedback submission the handler accepts (callback data with a
\* polarity and a message id) appends a row to the feedback table and, when
\* readable conversation files are found for the message id, leaves in the
\* learned-response store, under the normalized question of one of them, a
\* candidate whose text is its answer.
C1_FeedbackAprende ==
    [][ FoiFeedback =>
          /\ Len(tabelaFeedback') = Len(tabelaFeedback) + 1
          /\ ( /\ ArquivosCom(ultima'.mensagem_id) # {}
               /\ \A f \in ArquivosCom(ultima'.mensagem_id) : f.valido )
             => \E f \in ArquivosCom(ultima'.mensagem_id) :
                    Pontos(respostas', Strip(Lower(f.pergunta)), f.resposta) # {} ]_vars

\* C2: right after adicionar_conhecimento(p, r) with p holding a word and r
\* non-empty, processar_mensagem(t) returns r for every t whose normalized
\* words include all normalized words of p, whatever else the store holds.
C2_EnsinarPerguntar ==
    [][ ( /\ FoiMensagem
          /\ ultima.op = "adicionar_conhecimento"
          /\ PalavrasUniformes(ultima.texto) # {}
          /\ Truthy(ultima.resposta)
          /\ PalavrasUniformes(ultima.texto) \subseteq PalavrasUniformes(ultima'.texto) )
        => ultima'.retorno = ultima.resposta ]_vars

\* C8: each processar_mensagem adds exactly one to interacoes, each positive
\* feedback event one to feedback_positivo and each negative feedback event
\* one to feedback_negativo.
C8_Estatisticas ==
    [][ /\ FoiMensagem =>
              estatisticas'.interacoes = estatisticas.interacoes + 1
        /\ (FoiFeedback /\ ultima'.tipo = POSITIVO) =>
              estatisticas'.feedback_positivo = estatisticas.feedback_positivo + 1
        /\ (FoiFeedback /\ ultima'.tipo = NEGATIVO) =>
              estatisticas'.feedback_negativo = estatisticas.feedback_negativo + 1 ]_vars

\* C9: while every save succeeds, each processar_mensagem adds one record
\* carrying its own question and reply to the conversation log and leaves
\* every record already there as it was.
C9_LogSoCresce ==
    [][ ( /\ FoiMensagem
          /\ ultima'.saida = "ok"
          /\ \A f \in conversas : f.valido )
        => /\ conversas \subseteq conversas'
           /\ Cardinality(conversas') = Cardinality(conversas) + 1
           /\ \E f \in conversas' \ conversas :
                 /\ f.pergunta = ultima'.texto
                 /\ f.resposta = ultima'.retorno ]_vars

\* the word overlap of entry i with a message, both normalized uniformly
Sobreposicao(conhec, i, texto) ==
    Cardinality(PalavrasUniformes(conhec[i].padrao) \cap PalavrasUniformes(texto))

\* C10: with patterns and input normalized uniformly, processar_mensagem
\* answers with the reply of the first entry in insertion order whose word
\* overlap with the input is the greatest, when that overlap is above zero
\* (and the reply is non-empty).
C10_MelhorEntrada ==
    [][ FoiMensagem =>
          \A i \in 1..Len(conhecimento) :
             ( /\ Sobreposicao(conhecimento, i, ultima'.texto) > 0
               /\ \A j \in 1..Len(conhecimento) :
                     /\ Sobreposicao(conhecimento, j, ultima'.texto)
                            <= Sobreposicao(conhecimento, i, ultima'.texto)
                     /\ j < i => Sobreposicao(conhecimento, j, ultima'.texto)
                                    < Sobreposicao(conhecimento, i, ultima'.texto)
               /\ Truthy(conhecimento[i].resposta) )
             => ultima'.retorno = conhecimento[i].resposta ]_vars

(***************************************************************************)
(* A restart: __init__ loads respostas_aprendidas.json and                 *)
(* conhecimento.json written by an earlier run, then one message is        *)
(* processed.  The loaded stores are those earlier runs leave behind:      *)
(* distinct pattern keys, non-empty candidate lists of distinct texts.     *)
(***************************************************************************)
PadroesCarregados == { <<"a">>, <<A_ACUTE>>, <<"b">>, <<"a", SPACE, "b">> }

\* scores 2.0 and 5.0, in halves
PontosCarregados == { 4, 10 }

CandidatasCarregadas ==
    { << c >> : c \in [texto : { "t1", "t2" }, pontuacao : PontosCarregados] }
    \cup { << c, d >> : <<c, d>> \in
            { q \in [texto : { "t1", "t2" }, pontuacao : PontosCarregados]
                    \X [texto : { "t1", "t2" }, pontuacao : PontosCarregados] :
                q[1].texto # q[2].texto } }

RECURSIVE Armazens(_)
Armazens(n) ==
    IF n = 0 THEN { <<>> }
    ELSE LET menores == Armazens(n - 1)
         IN  menores \cup
             { Append(r, [padrao |-> p, candidatas |-> c]) :
                 <<r, p, c>> \in
                    { q \in menores \X PadroesCarregados \X CandidatasCarregadas :
                        /\ Len(q[1]) = n - 1
                        /\ \A i \in 1..Len(q[1]) : q[1][i].padrao # q[2] } }

RespostasCarregadas == Armazens(MaxPadroes)

ConhecimentosCarregados ==
    { <<>>,
      << [padrao |-> <<"b">>, resposta |-> "r1", data_adicao |-> StrfLegivel(0)] >> }

InitCarregado ==
    /\ conhecimento \in ConhecimentosCarregados
    /\ respostas \in RespostasCarregadas
    /\ estatisticas = [interacoes |-> 0, feedback_positivo |-> 0,
                       feedback_negativo |-> 0, ultima_atualizacao |-> <<>>]
    /\ tabelaFeedback = <<>>
    /\ conversas = {}
    /\ agora = 0
    /\ ultima = Nada
    /\ passos = 0

NextCarregado == passos = 0 /\ processar_mensagem

SpecCarregado == InitCarregado /\ [][NextCarregado]_vars

\* the learned patterns in a substring relation with the normalized text
Casam(resps, texto) ==
    { i \in 1..Len(resps) :
        \/ Contido(resps[i].padrao, Normalizar(texto))
        \/ Contido(Normalizar(texto), resps[i].padrao) }

\* the knowledge stage leaves no reply for the text
ConhecimentoFalha(conhec, texto) ==
    ~Truthy(BuscarConhecimento(conhec, Normalizar(texto), 1, 0, NONE))

\* C6: when the knowledge stage misses, the first learned pattern in storage
\* order that is a substring of the normalized input or contains it decides
\* the reply: the text of its first candidate of maximal score; later
\* patterns are not examined; without such a pattern the stage misses and
\* the lookup is consulted.
C6_PrimeiroPadrao ==
    [][ (FoiMensagem /\ ConhecimentoFalha(conhecimento, ultima'.texto)) =>
          LET casam == Casam(respostas, ultima'.texto)
          IN  IF casam = {} THEN ultima'.wiki # "nao consultada"
              ELSE LET i == CHOOSE k \in casam : \A m \in casam : k <= m
                       cs == respostas[i].candidatas
                   IN  /\ ultima'.wiki = "nao consultada"
                       /\ \E j \in 1..Len(cs) :
                            /\ ultima'.retorno = cs[j].texto
                            /\ \A k \in 1..Len(cs) :
                                  /\ cs[k].pontuacao <= cs[j].pontuacao
                                  /\ k < j => cs[k].pontuacao < cs[j].pontuacao ]_vars

\* C6 witness: the knowledge stage missed; two learned patterns match the
\* input, the second one exactly; the reply is the second, higher-scored
\* candidate of the first pattern, and the second pattern would have given
\* another reply.
C6_Witness ==
    /\ ultima.op = "processar_mensagem"
    /\ conhecimento # <<>>
    /\ ConhecimentoFalha(conhecimento, ultima.texto)
    /\ Len(respostas) = 2
    /\ Casam(respostas, ultima.texto) = { 1, 2 }
    /\ respostas[2].padrao = Normalizar(ultima.texto)
    /\ respostas[1].candidatas =
          << [texto |-> "t1", pontuacao |-> 4], [texto |-> "t2", pontuacao |-> 10] >>
    /\ respostas[2].candidatas = << [texto |-> "t1", pontuacao |-> 10] >>
    /\ ultima.retorno = "t2"

====
